---------------------------- MODULE Spec2Model ----------------------------
(***************************************************************************)
(* Model of the pilates booking scripts of jaehoooN/pilates0930.           *)
(*                                                                         *)
(* Three classes share one orchestration and differ in details:            *)
(*   "PreciseTiming"   PreciseTimingPilatesBooking   src/booking-script.js *)
(*   "Pilates"         PilatesBooking                src/booking-script.js *)
(*   "GitHubOptimized" GitHubOptimizedPilatesBooking src/unnamed/part_000  *)
(* The variable `variant` says which class runs.                           *)
(*                                                                         *)
(* Texts.  JavaScript strings are only ever tested with includes(needle).  *)
(* A text is modelled as the set of phrases it is made of; a phrase        *)
(* contains the needles that are substrings of it (Sub).  The Korean       *)
(* needles of the source are written with ASCII glosses:                   *)
(*   capacity_exceeded  '정원이 초과'       waitlist   '대기예약'          *)
(*   waitlist_question  '대기예약을 하시겠습니까'                          *)
(*   weekly_count_done  '요일별 예약횟수가 완료'                           *)
(*   select_date        '날짜를 선택'       simultaneous '동시신청'        *)
(*   shortly            '잠시 후'           timeout_ko '시간초과'          *)
(*   time_out           'time out'          booking    '예약'              *)
(*   complete           '완료'              success    '성공'              *)
(*   register           '등록'                                             *)
(*   no_time_selected   '선택된 타임이 없습니다'                           *)
(*   select_booking     '예약선택을 하십시오'                              *)
(*   not_registered     '등록되어 있지 않습니다'                           *)
(* and for the action cell of a slot row:                                  *)
(*   booked_done '예약완료'   waiting_done '대기완료'   delete '삭제'      *)
(*   cancel '취소'   book_now '예약하기'   waitlist '대기예약'             *)
(*   unavailable '예약불가'                                                *)
(***************************************************************************)
EXTENDS Integers, Sequences, FiniteSets, TLC

VARIABLES
    variant,              \* which class runs
    hasCredentials,       \* PILATES_USERNAME and PILATES_PASSWORD are both set
    testMode,             \* this.testMode
    executionMode,        \* this.executionMode
    retryEnv,             \* process.env.RETRY_COUNT: << >> when unset, << n >> when set to n
    host,                 \* the time zone of the host and the instant of `new Date()`
    nowDay,               \* the KST calendar day of getKSTDate(), counted from 1970-01-01
    timing,               \* this.immediateMode, this.targetTime, this.maxWaitMinutes, the
                          \* KST clock and the locals of waitUntilTargetTime
    delay,                \* ms the catch block of the current attempt sleeps (0: no sleep)
    pc,                   \* position of the main flow
    bookingSuccess,       \* this.bookingSuccess
    isWaitingReservation, \* this.isWaitingReservation
    hasConflictError,     \* this.hasConflictError
    hasTimeoutError,      \* this.hasTimeoutError
    dialogHandled,        \* dialogHandled / waitingDialogHandled of the current attempt
    handlerOn,            \* dialogHandler is registered on the page
    dlg,                  \* text of the open dialog whose handler awaits its log write
    abandoned,            \* a dialog the handler returned from without answering
    lateWrites,           \* flag writes of handler invocations still awaiting their log
    dialogsSeen,          \* dialogs raised in the current attempt
    rows,                 \* the site: action cells of the 09:30 rows, in page order
    pageRows,             \* the rows the page of the current attempt shows
    request,              \* the site's answer to the request of the current attempt
    accepted,             \* requests the site has accepted in this run
    result,               \* return value of page.evaluate in find0930ClassAndBook
    verified,             \* local `verified` of run()
    thrown,               \* the error run()'s catch caught: "conflict", "timeout",
                          \* "no_booking" (step 5 of run) or "driver" (a page-driver call)
    retryCount,           \* local retryCount of run()
    success,              \* local success of run()
    record,               \* the result file (booking-result.json / test-result.json)
    writes,               \* number of times the result file was written
    exitCode,             \* process exit code, meaningful once pc = "exited"
    rejected,             \* the promise of run() was rejected
    sessionOpen,          \* a browser launched by run() is not closed yet
    attempts,             \* browsers launched so far
    clicks,               \* slot links clicked in the current attempt
    submits,              \* submit controls invoked in the current attempt
    outcomes,             \* how each finished attempt ended: "error" or "terminal"
    waited,               \* waitUntilTargetTime was entered
    driverUsed            \* some page-driver call was made

vars == << variant, hasCredentials, testMode, executionMode, retryEnv, host, nowDay, timing, delay, pc,
           bookingSuccess, isWaitingReservation, hasConflictError, hasTimeoutError,
           dialogHandled, handlerOn, dlg, abandoned, lateWrites, dialogsSeen,
           rows, pageRows, request, accepted, result, verified, thrown,
           retryCount, success, record, writes, exitCode, rejected, sessionOpen,
           attempts, clicks, submits, outcomes, waited, driverUsed >>

confVars == << variant, hasCredentials, testMode, executionMode, retryEnv, host, nowDay, timing, delay >>
flagVars == << bookingSuccess, isWaitingReservation, hasConflictError, hasTimeoutError >>
dlgVars  == << dialogHandled, handlerOn, dlg, abandoned, lateWrites, dialogsSeen >>
siteVars == << rows, pageRows, request, accepted >>
runVars  == << retryCount, success, record, writes, exitCode, rejected >>
cntVars  == << attempts, clicks, submits, outcomes, waited, driverUsed >>

----------------------------------------------------------------------------
(* Bounds of the model *)

\* calendar days the run may start on (all seven weekdays occur)
NumDays == 7
\* largest RETRY_COUNT the environment sets
MaxRetryEnv == 3
\* dialogs the page raises within one attempt
MaxDialogs == 2
\* 09:30 rows on the booking page
MaxRows == 1

----------------------------------------------------------------------------
(* Values *)

Variants == {"PreciseTiming", "Pilates", "GitHubOptimized"}
ExecutionModes == {"manual", "force", "manual-force"}
NoDialog == {"<none>"}

\* the timing state of a run whose wait is not followed step by step
NoTiming ==
    [pos |-> "whole", immediateMode |-> FALSE, targetTime |-> << 0, 0, 0 >>,
     maxWaitMinutes |-> 0, start |-> 0, now |-> 0, i |-> 0, sleeps |-> 0, late |-> 0]

\* a host whose zone and clock are not followed: UTC, as on the hosted runners
NoHost == [before |-> 0, switch |-> 0, after |-> 0, instant |-> 0]

----------------------------------------------------------------------------
(* Clock and calendar *)

\* 1970-01-01 was a Thursday; Date.getDay() counts 0 = Sunday .. 6 = Saturday
EpochWeekday == 4
getDay(day) == (day + EpochWeekday) % 7

\* targetDate.setDate(targetDate.getDate() + 7)
TargetOffsetDays == 7

\* a target date one day off: eight days ahead
getTargetDateOffByOne(day) == day + TargetOffsetDays + 1

getTargetDate(day) == day + TargetOffsetDays

isWeekend(day) == getDay(day) = 0 \/ getDay(day) = 6

----------------------------------------------------------------------------
(* Day gate of init() *)

\* a gate that takes the weekend for the days to skip
SkipsOnWeekendDay(dow, test, mode) ==
    /\ ~test
    /\ mode # "force"
    /\ mode # "manual-force"
    /\ (dow = 6 \/ dow = 0)

\* a gate that forgets the execution mode
SkipsWhateverTheMode(dow, test, mode) ==
    /\ ~test
    /\ (dow = 5 \/ dow = 6)

\* PreciseTimingPilatesBooking.init: the gate reads the CURRENT weekday
SkipsOnCurrentDay(dow, test, mode) ==
    /\ ~test
    /\ mode # "force"
    /\ mode # "manual-force"
    /\ (dow = 5 \/ dow = 6)

\* PilatesBooking.init / GitHubOptimizedPilatesBooking.init: the gate reads the
\* weekday of the TARGET date, whatever the mode
SkipsOnTargetDay(day) == isWeekend(getTargetDate(day))

DayGateSkips(v, day, test, mode) ==
    IF v = "PreciseTiming" THEN SkipsOnCurrentDay(getDay(day), test, mode)
    ELSE SkipsOnTargetDay(day)

----------------------------------------------------------------------------
(* Retry limit *)

DefaultRetries == 2
PilatesRetries == 3
GitHubRetries == 2

\* parseInt(process.env.RETRY_COUNT) || 2 : NaN and 0 are falsy
ParseRetryCount(env) ==
    IF env = << >> \/ env[1] = 0 THEN DefaultRetries ELSE env[1]

maxRetries(v, env) ==
    CASE v = "PreciseTiming"   -> ParseRetryCount(env)
      [] v = "Pilates"         -> PilatesRetries
      [] v = "GitHubOptimized" -> GitHubRetries

----------------------------------------------------------------------------
(* Texts and String.prototype.includes *)

\* the needles that are substrings of a phrase (the phrase itself included)
Sub(phrase) ==
    CASE phrase = "waitlist"          -> {"waitlist", "booking"}
      [] phrase = "waitlist_question" -> {"waitlist_question", "waitlist", "booking"}
      [] phrase = "weekly_count_done" -> {"weekly_count_done", "booking", "complete"}
      [] phrase = "select_booking"    -> {"select_booking", "booking"}
      [] phrase = "not_registered"    -> {"not_registered", "register"}
      [] OTHER                        -> {phrase}

\* text.includes(needle)
Includes(text, needle) == \E phrase \in text : needle \in Sub(phrase)

DialogPhrases ==
    {"capacity_exceeded", "waitlist", "waitlist_question", "weekly_count_done",
     "select_date", "simultaneous", "shortly", "timeout_ko", "time_out",
     "booking", "complete", "success", "register", "no_time_selected",
     "select_booking", "not_registered"}

CellPhrases ==
    {"booked_done", "waiting_done", "delete", "cancel", "book_now", "waitlist",
     "unavailable"}

----------------------------------------------------------------------------
(* dialogHandler: classification of one dialog text *)

\* The rule of PreciseTimingPilatesBooking / GitHubOptimizedPilatesBooking that a
\* not yet handled dialog falls under, in the order of the if statements
ClassifyOptimized(m) ==
    IF Includes(m, "capacity_exceeded") /\ Includes(m, "waitlist") THEN "Waitlisted"
    ELSE IF Includes(m, "weekly_count_done") THEN "Booked"
    ELSE IF Includes(m, "simultaneous") \/ Includes(m, "shortly") THEN "ConflictDetected"
    ELSE IF Includes(m, "booking") /\ (Includes(m, "complete") \/ Includes(m, "success"))
         THEN "Booked"
    ELSE "None"

\* The rule of PilatesBooking that a dialog falls under
ClassifyPilates(m) ==
    IF Includes(m, "capacity_exceeded") /\ Includes(m, "waitlist_question") THEN "Waitlisted"
    ELSE IF Includes(m, "weekly_count_done") THEN "Booked"
    ELSE IF Includes(m, "select_date") THEN "DateError"
    ELSE IF Includes(m, "simultaneous") \/ Includes(m, "shortly") THEN "ConflictDetected"
    ELSE IF Includes(m, "timeout_ko") \/ Includes(m, "time_out") THEN "TimeoutDetected"
    ELSE IF Includes(m, "booking") /\
            (Includes(m, "complete") \/ Includes(m, "success") \/ Includes(m, "register"))
         THEN "Booked"
    ELSE IF Includes(m, "no_time_selected") \/ Includes(m, "select_booking") THEN "TimeSlotError"
    ELSE IF Includes(m, "not_registered") THEN "LoginError"
    ELSE "None"

Classify(v, m) == IF v = "Pilates" THEN ClassifyPilates(m) ELSE ClassifyOptimized(m)

\* The flags as a record, and the assignments each rule makes to them
Flags(bs, iw, hc, ht) ==
    [bookingSuccess |-> bs, isWaitingReservation |-> iw,
     hasConflictError |-> hc, hasTimeoutError |-> ht]

\* Assignments made before the handler's next await (the dialog's accept included)
ApplyRule(rule, f) ==
    CASE rule = "Waitlisted" -> [f EXCEPT !.isWaitingReservation = TRUE, !.bookingSuccess = TRUE]
      [] rule = "Booked"     -> [f EXCEPT !.bookingSuccess = TRUE]
      [] rule = "ConflictDetected" -> [f EXCEPT !.hasConflictError = TRUE]
      [] OTHER               -> f

\* Assignments PilatesBooking makes only after `await dialog.accept()` and
\* `await this.log(...)`: they run in a later turn of the event loop
LateRules == {"DateError", "ConflictDetected", "TimeoutDetected", "TimeSlotError", "LoginError"}

ApplyLate(rule, f) ==
    CASE rule = "ConflictDetected" -> [f EXCEPT !.bookingSuccess = FALSE, !.hasConflictError = TRUE]
      [] rule = "TimeoutDetected"  -> [f EXCEPT !.bookingSuccess = FALSE, !.hasTimeoutError = TRUE]
      [] rule \in {"DateError", "TimeSlotError", "LoginError"} -> [f EXCEPT !.hasConflictError = TRUE]
      [] OTHER -> f

----------------------------------------------------------------------------
(* The scan of the time table inside page.evaluate *)

\* A row is the action cell of a morning 09:30 row with at least three cells:
\* the text of the cell and whether it holds a link (actionCell.querySelector('a'))
Row(text, link) == [text |-> text, link |-> link]

\* a guard that forgets the '예약완료' text
IsExistingWithoutBookedDone(text) ==
    \/ Includes(text, "waiting_done")
    \/ Includes(text, "delete")
    \/ Includes(text, "cancel")

\* actionText shows a booking the user already holds
IsExisting(text) ==
    \/ Includes(text, "booked_done")
    \/ Includes(text, "waiting_done")
    \/ Includes(text, "delete")
    \/ Includes(text, "cancel")

\* The object page.evaluate returns; `row` is the row whose link was clicked (0: none),
\* `isWaiting` is result.isWaiting (PreciseTiming) or result.message.includes('대기')
\* of an alreadyBooked result (Pilates, GitHubOptimized)
ScanResult(found, booked, already, waiting, unavail, needSubmit, waitingOnly, row) ==
    [found |-> found, booked |-> booked, alreadyBooked |-> already, isWaiting |-> waiting,
     unavailable |-> unavail, needSubmit |-> needSubmit, isWaitingOnly |-> waitingOnly,
     row |-> row]

NotFoundResult  == ScanResult(FALSE, FALSE, FALSE, FALSE, FALSE, FALSE, FALSE, 0)
AlreadyResult(w) == ScanResult(TRUE, FALSE, TRUE, w, FALSE, FALSE, FALSE, 0)
BookClick(i)    == ScanResult(TRUE, TRUE, FALSE, FALSE, FALSE, TRUE, FALSE, i)
\* a waitlist click reported like a book-now click
WaitClickThatNeedsSubmit(i) == ScanResult(TRUE, TRUE, FALSE, FALSE, FALSE, TRUE, FALSE, i)
WaitClick(i)    == ScanResult(TRUE, TRUE, FALSE, FALSE, FALSE, FALSE, TRUE, i)
UnavailableResult == ScanResult(TRUE, FALSE, FALSE, FALSE, TRUE, FALSE, FALSE, 0)

\* PreciseTiming / GitHubOptimized: one pass; each row is checked for an existing
\* booking and then for an action, a row without action is left with `break`
RECURSIVE ScanOnePass(_, _)
ScanOnePass(page, i) ==
    IF i > Len(page) THEN NotFoundResult
    ELSE LET text == page[i].text
             link == page[i].link
         IN  IF IsExisting(text) THEN AlreadyResult(Includes(text, "waiting_done"))
             ELSE IF Includes(text, "book_now") /\ link THEN BookClick(i)
             ELSE IF ~Includes(text, "book_now") /\ Includes(text, "waitlist") /\ link
                  THEN WaitClick(i)
             ELSE IF ~Includes(text, "book_now") /\ ~Includes(text, "waitlist")
                     /\ Includes(text, "unavailable")
                  THEN UnavailableResult
             ELSE ScanOnePass(page, i + 1)

\* Pilates, first pass: existingBookingType of the last row that shows a booking
\* ("none" when no row does)
RECURSIVE ExistingBookingType(_, _, _)
ExistingBookingType(page, i, type) ==
    IF i > Len(page) THEN type
    ELSE ExistingBookingType(page, i + 1,
            IF IsExisting(page[i].text)
            THEN (IF Includes(page[i].text, "waiting_done") THEN "waiting" ELSE "booked")
            ELSE type)

\* Pilates, second pass: the first row with an action; '예약불가' is no action here
RECURSIVE ScanSecondPass(_, _)
ScanSecondPass(page, i) ==
    IF i > Len(page) THEN NotFoundResult
    ELSE LET text == page[i].text
             link == page[i].link
         IN  IF Includes(text, "book_now") /\ link THEN BookClick(i)
             ELSE IF ~Includes(text, "book_now") /\ Includes(text, "waitlist") /\ link
                  THEN WaitClick(i)
             ELSE ScanSecondPass(page, i + 1)

ScanTwoPass(page) ==
    LET type == ExistingBookingType(page, 1, "none")
    IN  IF type # "none" THEN AlreadyResult(type = "waiting")
        ELSE ScanSecondPass(page, 1)

Scan(v, page) == IF v = "Pilates" THEN ScanTwoPass(page) ELSE ScanOnePass(page, 1)

----------------------------------------------------------------------------
(* The environment: the site's pages and dialogs *)

\* action cells the site shows for the 09:30 slot
SiteCells ==
    { Row({"book_now"}, TRUE), Row({"book_now"}, FALSE), Row({"waitlist"}, TRUE),
      Row({"unavailable"}, FALSE), Row({"booked_done"}, TRUE),
      Row({"waiting_done", "cancel"}, TRUE) }

RECURSIVE SeqsUpTo(_, _)
SeqsUpTo(S, n) ==
    IF n = 0 THEN { << >> }
    ELSE LET shorter == SeqsUpTo(S, n - 1)
         IN  shorter \cup { Append(q, x) : q \in shorter, x \in S }

SitePages == SeqsUpTo(SiteCells, MaxRows) \ { << >> }

\* dialog texts the page raises during a run: one for every rule of the two
\* handlers, a text under no rule and one under both a conflict and a success rule
RunDialogTexts ==
    { {"capacity_exceeded", "waitlist_question"},
      {"weekly_count_done"},
      {"simultaneous"},
      {"timeout_ko"},
      {"booking", "complete"},
      {"select_date"},
      {"shortly", "booking", "success"},
      {"success"} }

RetryEnvs == { << >> } \cup { << n >> : n \in 0..MaxRetryEnv }
Days == 0..(NumDays - 1)

\* the result file before the run writes it
NoRecord ==
    [status |-> "NONE", retryCount |-> << >>, bookingSuccess |-> FALSE,
     isWaitingReservation |-> FALSE, verified |-> FALSE]

ResultRecord(status, rc, bs, iw, ver) ==
    [status |-> status, retryCount |-> rc, bookingSuccess |-> bs,
     isWaitingReservation |-> iw, verified |-> ver]

----------------------------------------------------------------------------
(* Initial states: the constructor has run, the script is about to check its
   environment *)

InitOver(days, modes, envs, pages) ==
    /\ variant \in Variants
    /\ hasCredentials \in BOOLEAN
    /\ testMode \in BOOLEAN
    /\ executionMode \in modes
    /\ retryEnv \in (IF variant = "PreciseTiming" THEN envs ELSE { << >> })
    /\ nowDay \in days
    /\ timing = NoTiming
    /\ delay = 0
    /\ host = NoHost
    /\ pc = "main"
    /\ bookingSuccess = FALSE
    /\ isWaitingReservation = FALSE
    /\ hasConflictError = FALSE
    /\ hasTimeoutError = FALSE
    /\ dialogHandled = FALSE
    /\ handlerOn = FALSE
    /\ dlg = NoDialog
    /\ abandoned = FALSE
    /\ lateWrites = {}
    /\ dialogsSeen = 0
    /\ rows \in pages
    /\ pageRows = << >>
    /\ request = "none"
    /\ accepted = 0
    /\ result = NotFoundResult
    /\ verified = FALSE
    /\ thrown = "none"
    /\ retryCount = 0
    /\ success = FALSE
    /\ record = NoRecord
    /\ writes = 0
    /\ exitCode = 0
    /\ rejected = FALSE
    /\ sessionOpen = FALSE
    /\ attempts = 0
    /\ clicks = 0
    /\ submits = 0
    /\ outcomes = << >>
    /\ waited = FALSE
    /\ driverUsed = FALSE

----------------------------------------------------------------------------
(* Process start, init() and the wait *)

\* process.exit(code)
Exit(code) == pc' = "exited" /\ exitCode' = code

\* saveResult / fs.writeFile of the result file
WriteRecord(r) == record' = r /\ writes' = writes + 1

\* if (!process.env.PILATES_USERNAME || !process.env.PILATES_PASSWORD) process.exit(1)
CheckEnv ==
    /\ pc = "main"
    /\ IF hasCredentials
       THEN pc' = "init" /\ UNCHANGED exitCode
       ELSE Exit(1)
    /\ UNCHANGED << confVars, flagVars, dlgVars, siteVars, result, verified, thrown,
                    retryCount, success, record, writes, rejected, sessionOpen, cntVars >>

\* init(): the day gate; a skipped run writes WEEKEND_SKIP and exits with 0
InitGate ==
    /\ pc = "init"
    /\ IF DayGateSkips(variant, nowDay, testMode, executionMode)
       THEN /\ WriteRecord(ResultRecord("WEEKEND_SKIP", << >>, FALSE, FALSE, FALSE))
            /\ Exit(0)
       ELSE /\ pc' = IF variant = "PreciseTiming" THEN "wait" ELSE "loop"
            /\ UNCHANGED << record, writes, exitCode >>
    /\ UNCHANGED << confVars, flagVars, dlgVars, siteVars, result, verified, thrown,
                    retryCount, success, rejected, sessionOpen, cntVars >>

\* waitUntilTargetTime() of PreciseTiming, up to its return
WaitUntilTargetTime ==
    /\ pc = "wait"
    /\ pc' = "loop"
    /\ waited' = TRUE
    /\ UNCHANGED << confVars, flagVars, dlgVars, siteVars, result, verified, thrown,
                    runVars, sessionOpen, attempts, clicks, submits, outcomes, driverUsed >>

----------------------------------------------------------------------------
(* run(): the retry loop *)

\* a terminal test that also asks for a verified booking
IsTerminalOnlyWhenVerified(v, r) == verified /\ (r.booked \/ r.alreadyBooked)

\* result.booked || result.alreadyBooked || result.unavailable
\* (PilatesBooking.run has no unavailable branch)
IsTerminal(v, r) ==
    IF v = "Pilates" THEN r.booked \/ r.alreadyBooked
    ELSE r.booked \/ r.alreadyBooked \/ r.unavailable

\* a loop condition that forgets `!success`
LoopContinuesAfterSuccess == retryCount < maxRetries(variant, retryEnv)

\* a loop condition that is off by one
LoopContinuesOnceMore == retryCount <= maxRetries(variant, retryEnv) /\ ~success

\* while (retryCount < this.maxRetries && !success)
LoopContinues == retryCount < maxRetries(variant, retryEnv) /\ ~success

\* puppeteer.launch() returns a browser: a new attempt begins
Launch ==
    /\ pc = "loop"
    /\ LoopContinues
    /\ pc' = "login"
    /\ sessionOpen' = TRUE
    /\ attempts' = attempts + 1
    /\ clicks' = 0
    /\ submits' = 0
    /\ dialogsSeen' = 0
    /\ driverUsed' = TRUE
    /\ UNCHANGED << confVars, flagVars, dialogHandled, handlerOn, dlg, abandoned, lateWrites,
                    siteVars, result, verified, thrown, runVars, outcomes, waited >>

\* puppeteer.launch() throws: it is outside the try block, run() rejects and the
\* catch of booking.run() calls process.exit(1)
LaunchFails ==
    /\ pc = "loop"
    /\ LoopContinues
    /\ Exit(1)
    /\ rejected' = TRUE
    /\ driverUsed' = TRUE
    /\ UNCHANGED << confVars, flagVars, dlgVars, siteVars, result, verified, thrown,
                    retryCount, success, record, writes, sessionOpen,
                    attempts, clicks, submits, outcomes, waited >>

\* FAILED record of the class: PreciseTiming records retryCount: this.maxRetries
FailedRecord ==
    ResultRecord("FAILED",
                 IF variant = "PreciseTiming" THEN << maxRetries(variant, retryEnv) >> ELSE << >>,
                 FALSE, FALSE, FALSE)

\* the loop ends: if (!success) { save FAILED; process.exit(1) }, else run() returns
\* and the process ends with code 0
LoopEnds ==
    /\ pc = "loop"
    /\ ~LoopContinues
    /\ IF ~success
       THEN WriteRecord(FailedRecord) /\ Exit(1)
       ELSE Exit(0) /\ UNCHANGED << record, writes >>
    /\ UNCHANGED << confVars, flagVars, dlgVars, siteVars, result, verified, thrown,
                    retryCount, success, rejected, sessionOpen, cntVars >>

\* newPage, page setup and login(page) succeed
Login ==
    /\ pc = "login"
    /\ pc' = "navigate"
    /\ UNCHANGED << confVars, flagVars, dlgVars, siteVars, result, verified, thrown,
                    runVars, sessionOpen, cntVars >>

\* navigateToBookingPage(page): the date is clicked and the time table of the target
\* date shows, or the date is not found and no 09:30 row shows
Navigate ==
    /\ pc = "navigate"
    /\ pc' = "find"
    /\ pageRows' \in { rows, << >> }
    /\ UNCHANGED << confVars, flagVars, dlgVars, rows, request, accepted, result, verified,
                    thrown, runVars, sessionOpen, cntVars >>

\* a page-driver call of the attempt throws (newPage, goto, waitForSelector of the
\* login form, evaluate, waitForTimeout): control passes to run()'s catch; inside
\* find0930ClassAndBook the inner catch rethrows without page.off
StepFails ==
    /\ pc \in {"login", "navigate", "scan", "scanned", "submit", "submitted", "settle"}
    /\ pc' = "catch"
    /\ thrown' = "driver"
    /\ UNCHANGED << confVars, flagVars, dlgVars, siteVars, result, verified,
                    runVars, sessionOpen, cntVars >>

----------------------------------------------------------------------------
(* find0930ClassAndBook(page) *)

\* entry: the error flags are reset (bookingSuccess and isWaitingReservation are
\* not), a fresh dialogHandled is declared and the handler is registered
FindStart ==
    /\ pc = "find"
    /\ pc' = "scan"
    /\ hasConflictError' = FALSE
    /\ hasTimeoutError' = IF variant = "PreciseTiming" THEN hasTimeoutError ELSE FALSE
    /\ dialogHandled' = FALSE
    /\ handlerOn' = TRUE
    /\ UNCHANGED << confVars, bookingSuccess, isWaitingReservation, dlg, abandoned,
                    lateWrites, dialogsSeen, siteVars, result, verified, thrown,
                    runVars, sessionOpen, cntVars >>

\* The site's answer to a request for row i: it accepts, and from then on the
\* action cell of the row reads '예약완료' or, for a waitlist entry, '대기완료'
\* (a book-now request may end on the waitlist when the capacity was taken
\* meanwhile), or it does not accept and the row stays as it is. The program
\* reads the rows again only in the next attempt, so the site's decision is taken
\* in the step that sends the request.
SiteAnswers(kinds, i) ==
    \/ /\ \E kind \in kinds : rows' = [rows EXCEPT ![i] = Row({kind}, TRUE)]
       /\ accepted' = accepted + 1
       /\ request' = "accepted"
    \/ /\ request' = "refused"
       /\ UNCHANGED << rows, accepted >>

\* page.evaluate: the scan of the rows; a link it finds is clicked inside the page.
\* A click on a join-waitlist link is a request to the site, a click on a book-now
\* link only opens the form that the submit control sends.
ScanStep ==
    /\ pc = "scan"
    /\ pc' = "scanned"
    /\ result' = Scan(variant, pageRows)
    /\ clicks' = IF result'.row > 0 THEN clicks + 1 ELSE clicks
    /\ IF result'.isWaitingOnly
       THEN SiteAnswers({"waiting_done"}, result'.row)
       ELSE UNCHANGED << rows, accepted, request >>
    /\ UNCHANGED << confVars, flagVars, dlgVars, pageRows, verified, thrown,
                    runVars, sessionOpen, attempts, submits, outcomes, waited, driverUsed >>

\* the branches after page.evaluate returned, up to the next await
PostScan ==
    /\ pc = "scanned"
    /\ IF result.unavailable
       THEN /\ pc' = "returned"
            /\ handlerOn' = FALSE
            /\ UNCHANGED << bookingSuccess, isWaitingReservation >>
       ELSE IF result.alreadyBooked
       THEN /\ pc' = "returned"
            /\ handlerOn' = FALSE
            /\ bookingSuccess' = TRUE
            /\ isWaitingReservation' = (isWaitingReservation \/ result.isWaiting)
       ELSE IF result.booked
       THEN /\ pc' = IF ~result.isWaitingOnly /\ result.needSubmit /\ ~testMode
                     THEN "submit" ELSE "settle"
            /\ UNCHANGED << handlerOn, bookingSuccess, isWaitingReservation >>
       ELSE /\ pc' = "returned"
            /\ handlerOn' = FALSE
            /\ UNCHANGED << bookingSuccess, isWaitingReservation >>
    /\ UNCHANGED << confVars, hasConflictError, hasTimeoutError, dialogHandled, dlg,
                    abandoned, lateWrites, dialogsSeen, siteVars, result, verified, thrown,
                    runVars, sessionOpen, cntVars >>

\* page.evaluate of the submit step: a submit control (or a form) is found and
\* invoked, which sends the booking request, or none is found
Submit ==
    /\ pc = "submit"
    /\ \/ /\ pc' = "submitted"
          /\ submits' = submits + 1
          /\ SiteAnswers({"booked_done", "waiting_done"}, result.row)
       \/ /\ pc' = "settle"
          /\ UNCHANGED << submits, rows, accepted, request >>
    /\ UNCHANGED << confVars, flagVars, dlgVars, pageRows, result, verified,
                    thrown, runVars, sessionOpen, attempts, clicks, outcomes, waited,
                    driverUsed >>

\* after the wait that follows the submit: if (this.hasConflictError) throw,
\* and in PilatesBooking also if (this.hasTimeoutError) throw
ConflictCheck ==
    /\ pc = "submitted"
    /\ IF hasConflictError
       THEN pc' = "catch" /\ thrown' = "conflict" /\ handlerOn' = FALSE
       ELSE IF variant = "Pilates" /\ hasTimeoutError
       THEN pc' = "catch" /\ thrown' = "timeout" /\ handlerOn' = FALSE
       ELSE pc' = "settle" /\ UNCHANGED << thrown, handlerOn >>
    /\ UNCHANGED << confVars, flagVars, dialogHandled, dlg, abandoned, lateWrites,
                    dialogsSeen, siteVars, result, verified, runVars, sessionOpen, cntVars >>

\* page.off('dialog', dialogHandler); return result
Return ==
    /\ pc = "settle"
    /\ pc' = "returned"
    /\ handlerOn' = FALSE
    /\ UNCHANGED << confVars, flagVars, dialogHandled, dlg, abandoned, lateWrites,
                    dialogsSeen, siteVars, result, verified, thrown, runVars, sessionOpen,
                    cntVars >>

----------------------------------------------------------------------------
(* run(): what follows the attempt *)

\* verifyBooking(page): never throws. PreciseTiming calls it for a booked or
\* alreadyBooked result; PilatesBooking for a terminal result outside test mode,
\* where a failed check falls back on this.bookingSuccess; GitHubOptimized has none.
Verify ==
    /\ pc = "returned"
    /\ pc' = "process"
    /\ CASE variant = "PreciseTiming" ->
              IF result.booked \/ result.alreadyBooked
              THEN verified' \in BOOLEAN ELSE verified' = FALSE
         [] variant = "Pilates" ->
              IF IsTerminal(variant, result) /\ ~testMode
              THEN verified' \in {TRUE, bookingSuccess} ELSE verified' = FALSE
         [] OTHER -> verified' = FALSE
    /\ UNCHANGED << confVars, flagVars, dlgVars, siteVars, result, thrown, runVars,
                    sessionOpen, cntVars >>

\* the status expression of resultInfo
StatusOf(v, test, r, waitingFlag) ==
    IF test THEN "TEST"
    ELSE IF v # "Pilates" /\ r.unavailable THEN "UNAVAILABLE"
    ELSE IF r.alreadyBooked
         THEN (IF (IF v = "PreciseTiming" THEN r.isWaiting ELSE waitingFlag)
               THEN "ALREADY_WAITING" ELSE "ALREADY_BOOKED")
    ELSE IF waitingFlag THEN "WAITING" ELSE "SUCCESS"

\* a record that counts the attempts instead of the retries
SuccessRecordCountingAttempts ==
    ResultRecord(StatusOf(variant, testMode, result, isWaitingReservation),
                 IF variant = "Pilates" THEN << >> ELSE << retryCount + 1 >>,
                 IF variant # "Pilates" /\ result.unavailable THEN FALSE ELSE bookingSuccess,
                 isWaitingReservation,
                 IF variant = "GitHubOptimized" \/ (variant = "Pilates" /\ testMode)
                 THEN FALSE ELSE verified)

\* resultInfo of a terminal attempt
SuccessRecord ==
    ResultRecord(StatusOf(variant, testMode, result, isWaitingReservation),
                 IF variant = "Pilates" THEN << >> ELSE << retryCount >>,
                 IF variant # "Pilates" /\ result.unavailable THEN FALSE ELSE bookingSuccess,
                 isWaitingReservation,
                 IF variant = "GitHubOptimized" \/ (variant = "Pilates" /\ testMode)
                 THEN FALSE ELSE verified)

\* step 5 of run(): a terminal result sets success and saves the record, any
\* other result is thrown as an error
Process ==
    /\ pc = "process"
    /\ IF IsTerminal(variant, result)
       THEN /\ success' = TRUE
            /\ WriteRecord(SuccessRecord)
            /\ pc' = "finally"
            /\ UNCHANGED thrown
       ELSE /\ thrown' = "no_booking"
            /\ pc' = "catch"
            /\ UNCHANGED << success, record, writes >>
    /\ UNCHANGED << confVars, flagVars, dlgVars, siteVars, result, verified,
                    retryCount, exitCode, rejected, sessionOpen, cntVars >>

\* this.retryDelay of the three classes
PreciseRetryDelay == 500
PilatesRetryDelay == 1000
GitHubRetryDelay == 500

retryDelay(v) ==
    CASE v = "PreciseTiming"   -> PreciseRetryDelay
      [] v = "Pilates"         -> PilatesRetryDelay
      [] v = "GitHubOptimized" -> GitHubRetryDelay

\* 3000 + Math.floor(Math.random() * 2000), and the delay after '시간초과'
JitterBase == 3000
JitterSpan == 2000
TimeoutDelay == 2000

\* values of Math.random(): k / RandomSteps for k in 0..RandomSteps - 1
RandomSteps == 4

\* the delays the catch block may sleep after the error `err`: PilatesBooking
\* looks at error.message ('동시신청', '시간초과'), the other two classes do not
Backoff(v, err) ==
    IF v = "Pilates"
    THEN (IF err = "conflict"
          THEN { JitterBase + ((k * JitterSpan) \div RandomSteps) : k \in 0..(RandomSteps - 1) }
          ELSE IF err = "timeout" THEN { TimeoutDelay }
          ELSE { retryDelay(v) })
    ELSE { retryDelay(v) }

\* catch (error) { retryCount++; ...; sleep if retries remain }
Catch ==
    /\ pc = "catch"
    /\ pc' = "finally"
    /\ retryCount' = retryCount + 1
    /\ IF retryCount' < maxRetries(variant, retryEnv)
       THEN delay' \in Backoff(variant, thrown)
       ELSE delay' = 0
    /\ UNCHANGED << variant, hasCredentials, testMode, executionMode, retryEnv, host, nowDay,
                    timing, flagVars, dlgVars, siteVars, result, verified, thrown,
                    success, record, writes, exitCode, rejected, sessionOpen, cntVars >>

\* a finally block that leaves the browser open
CloseWithoutTeardown ==
    /\ pc = "finally"
    /\ dlg = NoDialog
    /\ lateWrites = {}
    /\ pc' = "loop"
    /\ handlerOn' = FALSE
    /\ abandoned' = FALSE
    /\ dialogHandled' = FALSE
    /\ request' = "none"
    /\ pageRows' = << >>
    /\ result' = NotFoundResult
    /\ verified' = FALSE
    /\ thrown' = "none"
    /\ delay' = 0
    /\ outcomes' = Append(outcomes, IF success THEN "terminal" ELSE "error")
    /\ UNCHANGED << variant, hasCredentials, testMode, executionMode, retryEnv, host, nowDay,
                    timing, flagVars, dlg, lateWrites, dialogsSeen, rows, accepted,
                    runVars, sessionOpen, attempts, clicks, submits, waited, driverUsed >>

\* finally { await browser.close() }: the session ends and with it its page; the
\* locals of the iteration (result, verified, error) go out of scope. The log
\* writes handler invocations await are file appends: they are over before the
\* browser is closed.
Close ==
    /\ pc = "finally"
    /\ dlg = NoDialog
    /\ lateWrites = {}
    /\ pc' = "loop"
    /\ sessionOpen' = FALSE
    /\ handlerOn' = FALSE
    /\ abandoned' = FALSE
    /\ dialogHandled' = FALSE
    /\ request' = "none"
    /\ pageRows' = << >>
    /\ result' = NotFoundResult
    /\ verified' = FALSE
    /\ thrown' = "none"
    /\ delay' = 0
    /\ outcomes' = Append(outcomes, IF success THEN "terminal" ELSE "error")
    /\ UNCHANGED << variant, hasCredentials, testMode, executionMode, retryEnv, host, nowDay,
                    timing, flagVars, dlg, lateWrites, dialogsSeen, rows, accepted,
                    runVars, attempts, clicks, submits, waited, driverUsed >>

\* browser.close() throws inside finally: run() rejects and the catch of
\* booking.run() calls process.exit(1)
CloseFails ==
    /\ pc = "finally"
    /\ Exit(1)
    /\ rejected' = TRUE
    /\ UNCHANGED << confVars, flagVars, dlgVars, siteVars, result, verified, thrown,
                    retryCount, success, record, writes, sessionOpen, cntVars >>

----------------------------------------------------------------------------
(* Dialogs *)

\* the page raises a dialog in answer to a click or a submit; the registered
\* handler is invoked and awaits its log write. Dialogs are modal: the next one
\* comes only after this one is answered.
DialogArrivesFrom(texts) ==
    /\ pc \in {"scanned", "submitted", "settle"}
    /\ sessionOpen
    /\ handlerOn
    /\ clicks > 0
    /\ dlg = NoDialog
    /\ ~abandoned
    /\ dialogsSeen < MaxDialogs
    /\ \E m \in texts : dlg' = m
    /\ dialogsSeen' = dialogsSeen + 1
    /\ UNCHANGED << confVars, pc, flagVars, dialogHandled, handlerOn, abandoned, lateWrites,
                    siteVars, result, verified, thrown, runVars, sessionOpen, cntVars >>

DialogArrives == DialogArrivesFrom(RunDialogTexts)

\* the flags after the handler's part that runs before its next await; the rules
\* of PilatesBooking in LateRules write theirs after it
HandledFlags(v, handled, m, f) ==
    IF v = "Pilates"
    THEN (IF (Classify(v, m) = "Waitlisted" /\ handled) \/ Classify(v, m) \in LateRules
          THEN f ELSE ApplyRule(Classify(v, m), f))
    ELSE (IF handled THEN f ELSE ApplyRule(Classify(v, m), f))

\* PilatesBooking returns from a second waitlist dialog without answering it
LeavesUnanswered(v, handled, m) ==
    v = "Pilates" /\ Classify(v, m) = "Waitlisted" /\ handled

\* dialogHandled / waitingDialogHandled after the handler ran
HandledAfter(v, handled, m) ==
    IF v = "Pilates" THEN handled \/ Classify(v, m) = "Waitlisted" ELSE TRUE

\* the handler resumes after `await this.log(...)`: it classifies the text, sets
\* the flags and answers the dialog
HandleDialog ==
    /\ dlg # NoDialog
    /\ pc # "exited"
    /\ LET f == HandledFlags(variant, dialogHandled, dlg,
                    Flags(bookingSuccess, isWaitingReservation, hasConflictError,
                          hasTimeoutError))
       IN  /\ bookingSuccess' = f.bookingSuccess
           /\ isWaitingReservation' = f.isWaitingReservation
           /\ hasConflictError' = f.hasConflictError
           /\ hasTimeoutError' = f.hasTimeoutError
    /\ dialogHandled' = HandledAfter(variant, dialogHandled, dlg)
    /\ abandoned' = LeavesUnanswered(variant, dialogHandled, dlg)
    /\ lateWrites' = IF variant = "Pilates" /\ Classify(variant, dlg) \in LateRules
                     THEN lateWrites \cup {Classify(variant, dlg)} ELSE lateWrites
    /\ dlg' = NoDialog
    /\ UNCHANGED << confVars, pc, handlerOn, dialogsSeen, siteVars, result, verified,
                    thrown, runVars, sessionOpen, cntVars >>

\* a handler invocation of PilatesBooking resumes after its second await and
\* writes the flags of its rule
LateWrite ==
    /\ pc # "exited"
    /\ \E rule \in lateWrites :
         LET f == ApplyLate(rule, Flags(bookingSuccess, isWaitingReservation,
                                        hasConflictError, hasTimeoutError))
         IN  /\ bookingSuccess' = f.bookingSuccess
             /\ isWaitingReservation' = f.isWaitingReservation
             /\ hasConflictError' = f.hasConflictError
             /\ hasTimeoutError' = f.hasTimeoutError
             /\ lateWrites' = lateWrites \ {rule}
    /\ UNCHANGED << confVars, pc, dialogHandled, handlerOn, dlg, abandoned, dialogsSeen,
                    siteVars, result, verified, thrown, runVars, sessionOpen, cntVars >>

----------------------------------------------------------------------------
(* Specification of a run *)

Next ==
    \/ CheckEnv
    \/ InitGate
    \/ WaitUntilTargetTime
    \/ Launch
    \/ LaunchFails
    \/ LoopEnds
    \/ Login
    \/ Navigate
    \/ StepFails
    \/ FindStart
    \/ ScanStep
    \/ PostScan
    \/ Submit
    \/ ConflictCheck
    \/ Return
    \/ Verify
    \/ Process
    \/ Catch
    \/ Close
    \/ CloseFails
    \/ DialogArrives
    \/ HandleDialog
    \/ LateWrite

\* days a run starts on in Spec: a Monday, which every class runs on, and a
\* Saturday, which every class skips
RunDays == { d \in Days : getDay(d) \in {1, 6} }

Init == InitOver(RunDays, {"manual"}, RetryEnvs, SitePages)

Spec == Init /\ [][Next]_vars

----------------------------------------------------------------------------
(* Specification of the day gate: every weekday and every execution mode, with
   one bookable 09:30 row on the site *)

GateInit == InitOver(Days, ExecutionModes, { << >> }, { << Row({"book_now"}, TRUE) >> })

GateSpec == GateInit /\ [][Next]_vars

----------------------------------------------------------------------------
(* Specification of the dialog handler: an attempt has clicked the join-waitlist
   link, the site has not accepted the request, and the page raises dialogs with
   any text of up to MaxPhrases phrases *)

\* phrases in one dialog text
MaxPhrases == 3

DialogTexts == { m \in SUBSET DialogPhrases : Cardinality(m) \in 1..MaxPhrases }

ClassifyInit ==
    /\ variant \in Variants
    /\ hasCredentials = TRUE
    /\ testMode = FALSE
    /\ executionMode = "manual"
    /\ retryEnv = << >>
    /\ nowDay \in { d \in Days : getDay(d) = 1 }
    /\ timing = NoTiming
    /\ delay = 0
    /\ host = NoHost
    /\ pc = "settle"
    /\ bookingSuccess = FALSE
    /\ isWaitingReservation = FALSE
    /\ hasConflictError = FALSE
    /\ hasTimeoutError = FALSE
    /\ dialogHandled = FALSE
    /\ handlerOn = TRUE
    /\ dlg = NoDialog
    /\ abandoned = FALSE
    /\ lateWrites = {}
    /\ dialogsSeen = 0
    /\ rows = << Row({"waitlist"}, TRUE) >>
    /\ pageRows = rows
    /\ request = "refused"
    /\ accepted = 0
    /\ result = WaitClick(1)
    /\ verified = FALSE
    /\ thrown = "none"
    /\ retryCount = 0
    /\ success = FALSE
    /\ record = NoRecord
    /\ writes = 0
    /\ exitCode = 0
    /\ rejected = FALSE
    /\ sessionOpen = TRUE
    /\ attempts = 1
    /\ clicks = 1
    /\ submits = 0
    /\ outcomes = << >>
    /\ waited = (variant = "PreciseTiming")
    /\ driverUsed = TRUE

ClassifyNext ==
    \/ DialogArrivesFrom(DialogTexts)
    \/ HandleDialog
    \/ LateWrite

ClassifySpec == ClassifyInit /\ [][ClassifyNext]_vars

----------------------------------------------------------------------------
(* Claims about the scan and the retry loop, checked under Spec *)

\* the texts of an existing booking, as the guard's condition lists them
ExistingTexts == {"booked_done", "waiting_done", "delete", "cancel"}

\* C1: duplicate-booking guard. In an attempt whose first 09:30 row shows an
\* existing booking ('예약완료', '대기완료', '삭제' or '취소' in its action cell) no
\* link is clicked and no submit is made, and once the scan has returned its
\* result is alreadyBooked, with isWaiting true exactly when the cell contains
\* '대기완료'.
C1_DuplicateBookingGuard ==
    (/\ pageRows # << >>
     /\ \E n \in ExistingTexts : Includes(pageRows[1].text, n))
    =>  /\ clicks = 0
        /\ submits = 0
        /\ pc \in {"scanned", "returned", "process"} =>
              /\ result.alreadyBooked
              /\ result.row = 0
              /\ (variant # "Pilates" \/ Len(pageRows) = 1) =>
                    (result.isWaiting <=> Includes(pageRows[1].text, "waiting_done"))

\* an attempt of PreciseTiming found a '대기완료' row and is about to record it
C1_Witness ==
    /\ variant = "PreciseTiming"
    /\ pc = "process"
    /\ pageRows # << >>
    /\ Includes(pageRows[1].text, "waiting_done")
    /\ result.alreadyBooked
    /\ result.isWaiting
    /\ clicks = 0

\* C2: no double booking across retries. Against a site on which an accepted
\* request makes the action cell read '예약완료' / '대기완료' from then on, the site
\* accepts at most one request in a run, whatever fails after a click or a
\* submit, and once an attempt has ended in a terminal success no further
\* attempt is started.
C2_NoDoubleBooking ==
    /\ accepted <= 1
    /\ success => /\ attempts = retryCount + 1
                  /\ pc \in {"finally", "loop", "exited"}

\* the request of the first attempt was accepted, the attempt failed after it,
\* and the second attempt found the booking and ended the run
C2_Witness ==
    /\ pc = "exited"
    /\ accepted = 1
    /\ outcomes = << "error", "terminal" >>
    /\ record.status \in {"ALREADY_BOOKED", "ALREADY_WAITING"}

UnavailableShown == pageRows # << >> /\ pageRows[1].text = {"unavailable"}

\* C5: terminal outcomes end the loop. An attempt whose slot outcome is a
\* click (booked / waitlisted), an existing booking or '예약불가' is not thrown as
\* an error; it sets success, after which no attempt is started, retryCount is
\* not incremented and the process does not exit with 1; an '예약불가' slot is
\* recorded as UNAVAILABLE with bookingSuccess false.
C5_TerminalOutcomesEndTheLoop ==
    /\ (pc = "catch" /\ thrown = "no_booking")
       => ~(result.booked \/ result.alreadyBooked \/ UnavailableShown)
    /\ (success /\ ~rejected)
       => /\ attempts = retryCount + 1
          /\ pc \in {"finally", "loop", "exited"}
          /\ pc = "exited" => exitCode = 0
    /\ (pc = "finally" /\ UnavailableShown /\ thrown # "driver" /\ ~testMode)
       => /\ success
          /\ record.status = "UNAVAILABLE"
          /\ ~record.bookingSuccess

\* C6: conflict and timeout are retryable errors. find0930ClassAndBook does not
\* return a result while its handler is registered and hasConflictError or
\* hasTimeoutError is set: such an attempt ends with an error.
C6_ConflictAndTimeoutAreRaised ==
    [][ (pc = "settle" /\ pc' = "returned")
        => (~hasConflictError /\ ~hasTimeoutError) ]_vars

----------------------------------------------------------------------------
(* Claims about the day gate, checked under GateSpec *)

\* PreciseTiming in normal mode: credentials set, no test mode, no forced mode
NormalMode == hasCredentials /\ ~testMode /\ executionMode \notin {"force", "manual-force"}

\* init() has run
PastInit == pc \notin {"main", "init"}

\* C7: weekend skip. A run of PreciseTiming in normal mode on a Friday (5) or a
\* Saturday (6) never waits for the target time, launches no browser and makes
\* no page-driver call; once init() has run the process has exited with 0 and
\* the record reads WEEKEND_SKIP.
C7_WeekendSkip ==
    (variant = "PreciseTiming" /\ NormalMode /\ getDay(nowDay) \in {5, 6})
    =>  /\ ~waited
        /\ attempts = 0
        /\ ~driverUsed
        /\ ~sessionOpen
        /\ clicks = 0
        /\ submits = 0
        /\ PastInit => /\ pc = "exited"
                       /\ exitCode = 0
                       /\ writes = 1
                       /\ record.status = "WEEKEND_SKIP"

\* a Saturday run of PreciseTiming was skipped
C7_Witness ==
    /\ variant = "PreciseTiming"
    /\ NormalMode
    /\ getDay(nowDay) = 6
    /\ pc = "exited"
    /\ record.status = "WEEKEND_SKIP"

\* C8: day-gate decision table of PreciseTiming. For every weekday and mode the
\* run proceeds past init() exactly when testMode is set, or executionMode is
\* 'force' or 'manual-force', or the current weekday is Sunday..Thursday (0..4);
\* in every other case it is skipped.
C8_DayGateDecisionTable ==
    (variant = "PreciseTiming" /\ hasCredentials /\ PastInit)
    =>  IF testMode \/ executionMode \in {"force", "manual-force"} \/ getDay(nowDay) \in 0..4
        THEN record.status # "WEEKEND_SKIP" /\ (pc = "wait" \/ waited)
        ELSE record.status = "WEEKEND_SKIP" /\ pc = "exited" /\ ~waited

\* a forced run on a Saturday went on to the wait
C8_Witness ==
    /\ variant = "PreciseTiming"
    /\ ~testMode
    /\ executionMode = "manual-force"
    /\ getDay(nowDay) = 6
    /\ waited

\* C9 as stated: in normal mode the current-day gate of PreciseTiming decides as
\* a gate on the weekday of getTargetDate() (now + 7 days) would: a Friday run
\* targets a Saturday and a Saturday run a Sunday.
C9_GateEquivalence ==
    (variant = "PreciseTiming" /\ NormalMode /\ PastInit)
    =>  /\ (record.status = "WEEKEND_SKIP") <=> isWeekend(getTargetDate(nowDay))
        /\ getDay(nowDay) = 5 => getDay(getTargetDate(nowDay)) = 6
        /\ getDay(nowDay) = 6 => getDay(getTargetDate(nowDay)) = 0

\* C9 amended: getTargetDate() at gate time has the weekday of the current day,
\* so the target-date gate of Pilates / GitHubOptimized skips on Saturday and
\* Sunday; the current-day gate of PreciseTiming (Friday, Saturday) decides as
\* a gate on the target date of the following day, the day that begins at the
\* midnight the run waits for.
C9_GateEquivalenceAmended ==
    (NormalMode /\ PastInit)
    =>  /\ getDay(getTargetDate(nowDay)) = getDay(nowDay)
        /\ variant = "PreciseTiming" =>
              ((record.status = "WEEKEND_SKIP") <=> isWeekend(getTargetDate(nowDay + 1)))
        /\ variant # "PreciseTiming" =>
              ((record.status = "WEEKEND_SKIP") <=> getDay(nowDay) \in {0, 6})

\* a Friday run of PreciseTiming was skipped although its target date at gate
\* time is a Friday
C9_Witness ==
    /\ variant = "PreciseTiming"
    /\ NormalMode
    /\ getDay(nowDay) = 5
    /\ getDay(getTargetDate(nowDay)) = 5
    /\ getDay(getTargetDate(nowDay + 1)) = 6
    /\ pc = "exited"
    /\ record.status = "WEEKEND_SKIP"

----------------------------------------------------------------------------
(* Claim about the dialog handler, checked under ClassifySpec *)

\* the six rules as the claim orders them
ClaimedRule(m) ==
    IF Includes(m, "capacity_exceeded") /\ Includes(m, "waitlist") THEN "Waitlisted"
    ELSE IF Includes(m, "weekly_count_done") THEN "Booked"
    ELSE IF Includes(m, "simultaneous") \/ Includes(m, "shortly") THEN "ConflictDetected"
    ELSE IF Includes(m, "timeout_ko") \/ Includes(m, "time_out") THEN "TimeoutDetected"
    ELSE IF Includes(m, "booking") /\ (Includes(m, "complete") \/ Includes(m, "success"))
         THEN "Booked"
    ELSE "None"

\* the flags each claimed outcome sets
ClaimedFlags(rule, f) ==
    CASE rule = "Waitlisted" -> [f EXCEPT !.isWaitingReservation = TRUE, !.bookingSuccess = TRUE]
      [] rule = "Booked"     -> [f EXCEPT !.bookingSuccess = TRUE]
      [] rule = "ConflictDetected" -> [f EXCEPT !.hasConflictError = TRUE]
      [] rule = "TimeoutDetected"  -> [f EXCEPT !.hasTimeoutError = TRUE]
      [] OTHER               -> f

\* the flags once the writes an invocation has left pending are made
WithPending(f, pending) ==
    IF pending = {} THEN f ELSE ApplyLate(CHOOSE rule \in pending : TRUE, f)

\* C10: dialog classification priority. The first dialog of an attempt changes
\* the flags as the first matching rule of the claimed order says: (1) capacity
\* exceeded and waitlist -> Waitlisted, (2) weekly count completed -> Booked,
\* (3) simultaneous request or try again shortly -> ConflictDetected, (4) timeout
\* -> TimeoutDetected, (5) booking and (complete or success) -> Booked, (6) any
\* other text -> no flag changes.
C10_DialogClassificationPriority ==
    [][ (dlg # NoDialog /\ dlg' = NoDialog /\ dialogsSeen = 1)
        => WithPending(Flags(bookingSuccess', isWaitingReservation', hasConflictError',
                             hasTimeoutError'), lateWrites')
           = ClaimedFlags(ClaimedRule(dlg),
                          Flags(bookingSuccess, isWaitingReservation, hasConflictError,
                                hasTimeoutError)) ]_vars

----------------------------------------------------------------------------
(* Claims about the attempt state, checked under Spec *)

\* C11: first dialog only. Within one attempt a dialog after the first is
\* answered and changes none of bookingSuccess, isWaitingReservation,
\* hasConflictError and hasTimeoutError, now or by a write it leaves pending,
\* whatever its text.
C11_FirstDialogOnly ==
    [][ (dlg # NoDialog /\ dlg' = NoDialog /\ dialogsSeen > 1)
        => /\ UNCHANGED flagVars
           /\ lateWrites' = lateWrites
           /\ ~abandoned' ]_vars

\* C12: attempt-state reset. When find0930ClassAndBook has made its resets and
\* is about to scan, all four flags are false, in the first attempt and in
\* every attempt after a failed one.
C12_AttemptStateReset ==
    pc = "scan"
    => /\ ~bookingSuccess
       /\ ~isWaitingReservation
       /\ ~hasConflictError
       /\ ~hasTimeoutError

\* the attempt is under way: its browser was launched and is not yet closed
InAttempt == pc \notin {"main", "init", "wait", "loop", "exited"}

\* some 09:30 row of the page the attempt reads shows one of the needles
PageShows(needles) ==
    \E i \in 1..Len(pageRows) : \E n \in needles : Includes(pageRows[i].text, n)

\* some 09:30 row of the page holds a link under the needle
PageLinks(needle) ==
    \E i \in 1..Len(pageRows) : Includes(pageRows[i].text, needle) /\ pageRows[i].link

\* C13: no state shared across attempts. The record of a terminal attempt that
\* received no dialog carries the status and flags its own slot state gives to
\* an attempt that starts with fresh flags, whatever dialogs the failed
\* attempts before it received.
C13_NoStateSharedAcrossAttempts ==
    (pc = "finally" /\ success /\ dialogsSeen = 0)
    => LET waiting == result.alreadyBooked /\ result.isWaiting
       IN  /\ record.bookingSuccess = result.alreadyBooked
           /\ record.isWaitingReservation = waiting
           /\ record.status =
                (IF testMode THEN "TEST"
                 ELSE IF variant # "Pilates" /\ result.unavailable THEN "UNAVAILABLE"
                 ELSE IF result.alreadyBooked
                      THEN (IF waiting THEN "ALREADY_WAITING" ELSE "ALREADY_BOOKED")
                 ELSE "SUCCESS")

C17_MissingSubmitIsAnError ==
    (pc = "finally" /\ ~testMode /\ clicks > 0 /\ PageLinks("book_now") /\ submits = 0)
    => ~success /\ record.status # "SUCCESS"

C20_SubmitOnlyAfterBookNow ==
    InAttempt
    => /\ (submits > 0
              => /\ clicks > 0
                 /\ result.row > 0
                 /\ Includes(pageRows[result.row].text, "book_now")
                 /\ pageRows[result.row].link)
       /\ ((result.row > 0 /\ ~Includes(pageRows[result.row].text, "book_now"))
              => submits = 0)
       /\ (~PageShows({"book_now"}) => submits = 0)
       /\ (result.alreadyBooked \/ result.unavailable \/ ~result.found
              => clicks = 0 /\ submits = 0)
       /\ (pc \notin {"login", "navigate", "find", "scan"} /\ ~PageLinks("book_now")
              /\ ~PageLinks("waitlist")
              => clicks = 0 /\ submits = 0)

\* the submit control was invoked after the click on the book-now link
C20_Witness ==
    /\ pc = "submitted"
    /\ submits = 1
    /\ clicks = 1
    /\ PageLinks("book_now")

----------------------------------------------------------------------------
(* Specification of the scan on time tables with several 09:30 rows: a run on a
   Monday whose page shows up to MaxScanRows morning rows that match 09:30 *)

\* 09:30 rows on one page
MaxScanRows == 2

ScanPages == SeqsUpTo(SiteCells, MaxScanRows) \ { << >> }

ScanInit == InitOver({ d \in Days : getDay(d) = 1 }, {"manual"}, { << >> }, ScanPages)

ScanSpec == ScanInit /\ [][Next]_vars

\* C19: the guard precedes any click on pages with several rows. In an attempt
\* whose page shows an existing booking in any 09:30 row, no link is clicked,
\* wherever that row stands among the matching rows.
C19_GuardPrecedesAnyClick ==
    (InAttempt /\ PageShows(ExistingTexts)) => clicks = 0

----------------------------------------------------------------------------
(* Specification of waitUntilTargetTime: a run of PreciseTiming has passed its
   day gate and enters the wait. The clock counts ticks of 200 ms from the
   midnight before the start; timers fire on time. *)

\* largest MAX_WAIT_MINUTES the environment sets
MaxWaitEnv == 2
\* the run starts up to MaxLead seconds before the target time
MaxLead == 150
\* the run starts up to MaxLate seconds after the target time
MaxLate == 2

\* setTimeout(resolve, 200): ticks in a second
TicksPerSecond == 5
\* parseInt(process.env.MAX_WAIT_MINUTES) || 20
DefaultMaxWait == 20

SecondsPerDay == 24 * 3600

\* parseInt(process.env.MAX_WAIT_MINUTES) || 20 : NaN and 0 are falsy
ParseMaxWait(env) ==
    IF env = << >> \/ env[1] = 0 THEN DefaultMaxWait ELSE env[1]

\* now.getHours(), now.getMinutes(), now.getSeconds() of the clock at tick t
getHours(t)   == ((t \div TicksPerSecond) \div 3600) % 24
getMinutes(t) == ((t \div TicksPerSecond) \div 60) % 60
getSeconds(t) == (t \div TicksPerSecond) % 60

\* currentHour * 3600 + currentMinute * 60 + currentSecond
TotalSeconds(h, m, sec) == h * 3600 + m * 60 + sec

\* a calculateWaitTime that counts the target on the clock's own day only
calculateWaitTimeOnTheSameDay(t, target) ==
    LET waitSeconds == TotalSeconds(target[1], target[2], target[3])
                         - TotalSeconds(getHours(t), getMinutes(t), getSeconds(t))
    IN  IF waitSeconds > 0 THEN waitSeconds ELSE 0

\* calculateWaitTime(): seconds from the clock at tick t to the target, the
\* target counted on the next day when it is 23 o'clock and the target lies
\* before noon
calculateWaitTime(t, target) ==
    LET currentTotalSeconds == TotalSeconds(getHours(t), getMinutes(t), getSeconds(t))
        targetTotalSeconds  ==
            IF getHours(t) >= 23 /\ target[1] < 12
            THEN TotalSeconds(target[1], target[2], target[3]) + SecondsPerDay
            ELSE TotalSeconds(target[1], target[2], target[3])
        waitSeconds == targetTotalSeconds - currentTotalSeconds
    IN  IF waitSeconds > 0 THEN waitSeconds ELSE 0

\* a wait that returns at once only in immediate mode
ReturnsAtOnceOnlyWhenImmediate(immediate, waitSeconds, maxWait) == immediate

\* the three early returns: immediateMode, waitSeconds <= 0, waitMinutes > maxWaitMinutes
ReturnsAtOnce(immediate, waitSeconds, maxWait) ==
    \/ immediate
    \/ waitSeconds <= 0
    \/ waitSeconds \div 60 > maxWait

\* await new Promise(resolve => setTimeout(resolve, ms)) from tick t
Sleep(t, ms) == t + (ms \div 200)

\* the early returns, or the start of the minute loop or of the second loop
WaitStart ==
    /\ pc = "wait"
    /\ timing.pos = "entry"
    /\ LET waitSeconds == calculateWaitTime(timing.now, timing.targetTime)
           waitMinutes == waitSeconds \div 60
       IN  IF ReturnsAtOnce(timing.immediateMode, waitSeconds, timing.maxWaitMinutes)
           THEN timing' = [timing EXCEPT !.pos = "done"]
           ELSE timing' = [timing EXCEPT !.pos = IF waitMinutes > 0 THEN "minutes" ELSE "seconds",
                                         !.i = waitMinutes]
    /\ UNCHANGED << variant, hasCredentials, testMode, executionMode, retryEnv, host, nowDay, delay, pc,
                    flagVars, dlgVars, siteVars, result, verified, thrown, runVars,
                    sessionOpen, cntVars >>

\* one round of `for (let i = waitMinutes; i > 0; i--)`: a minute of sleep (two
\* half minutes when i <= 2), then calculateWaitTime() again and `break` when
\* at most 60 seconds remain
WaitMinute ==
    /\ pc = "wait"
    /\ timing.pos = "minutes"
    /\ LET after == IF timing.i <= 2 THEN Sleep(Sleep(timing.now, 30000), 30000)
                    ELSE Sleep(timing.now, 60000)
           waitSeconds == calculateWaitTime(after, timing.targetTime)
       IN  timing' = [timing EXCEPT
                        !.now = after,
                        !.sleeps = IF timing.i <= 2 THEN @ + 2 ELSE @ + 1,
                        !.i = IF waitSeconds <= 60 THEN @ ELSE @ - 1,
                        !.pos = IF waitSeconds <= 60 \/ timing.i - 1 <= 0
                                THEN "seconds" ELSE "minutes"]
    /\ UNCHANGED << variant, hasCredentials, testMode, executionMode, retryEnv, host, nowDay, delay, pc,
                    flagVars, dlgVars, siteVars, result, verified, thrown, runVars,
                    sessionOpen, cntVars >>

\* a fine loop whose overshoot test has no `currentHour < 23`
WaitSecondWithoutHourGuard ==
    /\ pc = "wait"
    /\ timing.pos = "seconds"
    /\ LET currentHour   == getHours(timing.now)
           currentMinute == getMinutes(timing.now)
           currentSecond == getSeconds(timing.now)
           target        == timing.targetTime
           timeMatch     == /\ currentHour = target[1]
                            /\ currentMinute = target[2]
                            /\ currentSecond >= target[3]
           currentTotal  == TotalSeconds(currentHour, currentMinute, currentSecond)
           targetTotal   == TotalSeconds(target[1], target[2], target[3])
           remaining     == targetTotal - currentTotal
       IN  IF timeMatch \/ currentTotal > targetTotal
           THEN timing' = [timing EXCEPT !.pos = "done"]
           ELSE timing' = [timing EXCEPT
                             !.sleeps = @ + 1,
                             !.now = IF remaining <= 10 /\ remaining > 0 THEN Sleep(@, 200)
                                     ELSE IF remaining <= 30 THEN Sleep(@, 1000)
                                     ELSE Sleep(@, 2000)]
    /\ UNCHANGED << variant, hasCredentials, testMode, executionMode, retryEnv, host, nowDay, delay, pc,
                    flagVars, dlgVars, siteVars, result, verified, thrown, runVars,
                    sessionOpen, cntVars >>

\* one round of `while (true)`: the target is reached or passed, or a sleep of
\* 200 ms, 1 s or 2 s by the seconds that remain on the clock's own day
WaitSecond ==
    /\ pc = "wait"
    /\ timing.pos = "seconds"
    /\ LET currentHour   == getHours(timing.now)
           currentMinute == getMinutes(timing.now)
           currentSecond == getSeconds(timing.now)
           target        == timing.targetTime
           timeMatch     == /\ currentHour = target[1]
                            /\ currentMinute = target[2]
                            /\ currentSecond >= target[3]
           currentTotal  == TotalSeconds(currentHour, currentMinute, currentSecond)
           targetTotal   == TotalSeconds(target[1], target[2], target[3])
           remaining     == targetTotal - currentTotal
       IN  IF timeMatch \/ (currentTotal > targetTotal /\ currentHour < 23)
           THEN timing' = [timing EXCEPT !.pos = "done"]
           ELSE timing' = [timing EXCEPT
                             !.sleeps = @ + 1,
                             !.now = IF remaining <= 10 /\ remaining > 0 THEN Sleep(@, 200)
                                     ELSE IF remaining <= 30 THEN Sleep(@, 1000)
                                     ELSE Sleep(@, 2000)]
    /\ UNCHANGED << variant, hasCredentials, testMode, executionMode, retryEnv, host, nowDay, delay, pc,
                    flagVars, dlgVars, siteVars, result, verified, thrown, runVars,
                    sessionOpen, cntVars >>

\* waitUntilTargetTime() returns and run() goes on to its loop
WaitReturns ==
    /\ timing.pos = "done"
    /\ WaitUntilTargetTime

\* MAX_WAIT_MINUTES: unset or 0..MaxWaitEnv
MaxWaitEnvs == { << >> } \cup { << n >> : n \in 0..MaxWaitEnv }

\* TARGET_TIME: unset ('00:01:00'), midnight, the last second of the day, an afternoon time
TargetTimes == { << 0, 1, 0 >>, << 0, 0, 0 >>, << 23, 59, 59 >>, << 12, 30, 0 >> }

\* seconds the run starts ahead of the target: around it, just inside and
\* outside the default budget, an hour and two minutes, and half a day
Leads ==
    ((0 - MaxLate)..MaxLead)
        \cup { DefaultMaxWait * 60 + 59, (DefaultMaxWait + 1) * 60, 3600 + 120,
               SecondsPerDay \div 2 }

WaitInitOver(immediates, envs, targets, leads) ==
    /\ variant = "PreciseTiming"
    /\ hasCredentials = TRUE
    /\ testMode = FALSE
    /\ executionMode = "manual"
    /\ retryEnv = << >>
    /\ nowDay \in { d \in Days : getDay(d) = 1 }
    /\ \E immediate \in immediates, env \in envs, target \in targets, lead \in leads :
         LET startSecond == (TotalSeconds(target[1], target[2], target[3]) - lead
                                + SecondsPerDay) % SecondsPerDay
         IN  timing = [pos |-> "entry", immediateMode |-> immediate, targetTime |-> target,
                       maxWaitMinutes |-> ParseMaxWait(env),
                       start |-> startSecond * TicksPerSecond,
                       now |-> startSecond * TicksPerSecond, i |-> 0, sleeps |-> 0, late |-> 0]
    /\ delay = 0
    /\ host = NoHost
    /\ pc = "wait"
    /\ bookingSuccess = FALSE
    /\ isWaitingReservation = FALSE
    /\ hasConflictError = FALSE
    /\ hasTimeoutError = FALSE
    /\ dialogHandled = FALSE
    /\ handlerOn = FALSE
    /\ dlg = NoDialog
    /\ abandoned = FALSE
    /\ lateWrites = {}
    /\ dialogsSeen = 0
    /\ rows = << Row({"book_now"}, TRUE) >>
    /\ pageRows = << >>
    /\ request = "none"
    /\ accepted = 0
    /\ result = NotFoundResult
    /\ verified = FALSE
    /\ thrown = "none"
    /\ retryCount = 0
    /\ success = FALSE
    /\ record = NoRecord
    /\ writes = 0
    /\ exitCode = 0
    /\ rejected = FALSE
    /\ sessionOpen = FALSE
    /\ attempts = 0
    /\ clicks = 0
    /\ submits = 0
    /\ outcomes = << >>
    /\ waited = FALSE
    /\ driverUsed = FALSE

WaitInit == WaitInitOver(BOOLEAN, MaxWaitEnvs, TargetTimes, Leads)

WaitNext ==
    \/ WaitStart
    \/ WaitMinute
    \/ WaitSecond
    \/ WaitReturns

WaitSpec == WaitInit /\ [][WaitNext]_vars

\* C15: immediate-return conditions of the wait. When immediateMode is true,
\* when the remaining seconds computed at the start are <= 0, or when the
\* remaining whole minutes exceed maxWaitMinutes, waitUntilTargetTime sleeps
\* not once and no time passes before run() is at its loop.
C15_ImmediateReturn ==
    LET waitSeconds == calculateWaitTime(timing.start, timing.targetTime)
    IN  (/\ timing.pos \notin {"entry", "whole"}
         /\ \/ timing.immediateMode
            \/ waitSeconds <= 0
            \/ waitSeconds \div 60 > timing.maxWaitMinutes)
        => /\ timing.pos = "done"
           /\ timing.sleeps = 0
           /\ timing.now = timing.start

\* the wait was over budget and run() is at its loop without a sleep
C15_Witness ==
    /\ pc = "loop"
    /\ timing.pos = "done"
    /\ ~timing.immediateMode
    /\ calculateWaitTime(timing.start, timing.targetTime) \div 60 > timing.maxWaitMinutes
    /\ timing.sleeps = 0

\* C16: bounded wait. From its start to any point of the minute loop or the
\* second loop and to its return, waitUntilTargetTime has blocked run() for at
\* most maxWaitMinutes minutes.
C16_BoundedWait ==
    timing.pos # "whole"
    => timing.now - timing.start <= timing.maxWaitMinutes * 60 * TicksPerSecond

----------------------------------------------------------------------------
(* Claims about the record and the exit, checked under Spec *)

\* C21: outcome-to-status mapping. The record a terminal attempt writes has,
\* outside test mode, status UNAVAILABLE for '예약불가', ALREADY_WAITING or
\* ALREADY_BOOKED for an existing booking by whether its text is that of a
\* waitlist entry, WAITING or SUCCESS for a clicked booking, and SUCCESS when
\* the attempt received no dialog at all; in test mode it is TEST. FAILED is
\* written only when the retries are used up and WEEKEND_SKIP only by the day
\* gate, before any attempt.
C21_OutcomeToStatus ==
    /\ (pc = "finally" /\ success)
          => record.status =
               (IF testMode THEN "TEST"
                ELSE IF result.unavailable THEN "UNAVAILABLE"
                ELSE IF result.alreadyBooked
                     THEN (IF result.isWaiting THEN "ALREADY_WAITING" ELSE "ALREADY_BOOKED")
                ELSE IF dialogsSeen = 0 THEN "SUCCESS"
                ELSE IF record.status = "WAITING" THEN "WAITING" ELSE "SUCCESS")
    /\ (record.status = "FAILED"
          => /\ pc = "exited"
             /\ ~success
             /\ retryCount = maxRetries(variant, retryEnv))
    /\ (record.status = "WEEKEND_SKIP"
          => /\ pc = "exited"
             /\ attempts = 0
             /\ ~waited)

\* C22: exit codes and fatal configuration. The process exits with code 0
\* exactly when the run had a terminal success or was skipped by the day gate;
\* it exits with 1 when the retries are used up and when a credential is
\* missing, and then before the day gate, the wait, any browser launch and
\* any write of the result record.
C22_ExitCodes ==
    pc = "exited"
    => /\ (exitCode = 0 <=> (success \/ record.status = "WEEKEND_SKIP"))
       /\ exitCode \in {0, 1}
       /\ ((~success /\ attempts > 0 /\ retryCount = maxRetries(variant, retryEnv))
              => exitCode = 1)
       /\ (~hasCredentials
              => /\ exitCode = 1
                 /\ record = NoRecord
                 /\ writes = 0
                 /\ ~waited
                 /\ attempts = 0
                 /\ ~driverUsed)

\* C23: the result is written at most once. In every state of a run the result
\* file has been written at most one time: by the day gate's skip before any
\* attempt, by the terminal attempt, or after the retries are used up, and
\* by one of them only, so no write replaces an earlier one.
C23_ResultWrittenAtMostOnce ==
    /\ writes <= 1
    /\ (writes = 0 <=> record = NoRecord)
    /\ (writes = 1
          => \/ record.status = "WEEKEND_SKIP" /\ attempts = 0 /\ ~success
             \/ record.status = "FAILED" /\ attempts > 0 /\ ~success /\ pc = "exited"
             \/ record.status \notin {"WEEKEND_SKIP", "FAILED", "NONE"} /\ success)

\* a failed attempt, then a terminal one: the run is over with one write
C23_Witness ==
    /\ pc = "exited"
    /\ writes = 1
    /\ success
    /\ outcomes = << "error", "terminal" >>

\* C24: the conflict backoff is jittered. When an attempt has failed and
\* retries remain, the catch block sleeps a delay in [3000, 5000) ms after a
\* conflict, 2000 ms after a timeout and this.retryDelay after any other
\* failure.
C24_ConflictBackoffIsJittered ==
    (pc = "finally" /\ thrown # "none" /\ retryCount < maxRetries(variant, retryEnv))
    => IF thrown = "conflict" THEN delay >= 3000 /\ delay < 5000
       ELSE IF thrown = "timeout" THEN delay = 2000
       ELSE delay = (CASE variant = "PreciseTiming" -> 500
                       [] variant = "Pilates" -> 1000
                       [] variant = "GitHubOptimized" -> 500)

C26_RunTermination ==
    (pc = "exited" /\ hasCredentials)
    => /\ attempts <= maxRetries(variant, retryEnv)
       /\ \/ success
          \/ record.status = "WEEKEND_SKIP"
          \/ record.status = "FAILED"

----------------------------------------------------------------------------
(* Specification of getKSTDate on a host: the instant is counted in seconds from
   1970-01-01T00:00Z; a time zone is the minutes getTimezoneOffset() returns
   before and from the instant `switch` on (equal in a zone without daylight
   saving time) *)

\* const kstOffset = 9 * 60 * 60 * 1000
KSTOffsetHours == 9

\* now.getTimezoneOffset(): minutes from the local time of the Date to UTC
getTimezoneOffset(zone, t) == IF t < zone.switch THEN zone.before ELSE zone.after

\* getKSTDate(): new Date(now.getTime() + now.getTimezoneOffset() * 60000 + kstOffset)
getKSTDate(zone, t) == t + getTimezoneOffset(zone, t) * 60 + KSTOffsetHours * 3600

\* the local wall clock that getDay(), getHours(), getMinutes() and
\* getSeconds() of the Date d read on the host, in seconds
LocalTime(zone, d) == d - getTimezoneOffset(zone, d) * 60

Zone(before, switch, after) == [before |-> before, switch |-> switch, after |-> after]

\* UTC, Seoul, Kathmandu, Kiritimati, Baker Island; New York in the night its
\* daylight saving time begins, and Auckland likewise, on the weekend of the model
HostZones ==
    { Zone(0, 0, 0), Zone(0 - 540, 0, 0 - 540), Zone(0 - 345, 0, 0 - 345),
      Zone(0 - 840, 0, 0 - 840), Zone(720, 0, 720),
      Zone(300, 3 * SecondsPerDay + 7 * 3600, 240),
      Zone(0 - 720, 2 * SecondsPerDay + 14 * 3600, 0 - 780) }

\* the instants of `new Date()`: every half hour of the days 1..NumDays
Instants ==
    { d * SecondsPerDay + h * 3600 + m * 60 + sec :
        d \in 1..NumDays, h \in 0..23, m \in {0, 30}, sec \in {0} }

\* init(): const kstNow = this.getKSTDate(), whose weekday the day gate reads;
\* calculateWaitTime(): const now = this.getKSTDate(), at the same instant
ReadKSTDate ==
    /\ pc = "now"
    /\ pc' = "init"
    /\ LET kstNow == LocalTime(host, getKSTDate(host, host.instant))
       IN  /\ nowDay' = kstNow \div SecondsPerDay
           /\ timing' = [timing EXCEPT !.start = kstNow * TicksPerSecond,
                                       !.now = kstNow * TicksPerSecond]
    /\ UNCHANGED << variant, hasCredentials, testMode, executionMode, retryEnv, host, delay,
                    flagVars, dlgVars, siteVars, result, verified, thrown, runVars,
                    sessionOpen, cntVars >>

ClockInit ==
    /\ variant \in Variants
    /\ hasCredentials = TRUE
    /\ testMode = FALSE
    /\ executionMode \in ExecutionModes
    /\ retryEnv = << >>
    /\ \E zone \in HostZones, t \in Instants :
         host = [before |-> zone.before, switch |-> zone.switch, after |-> zone.after,
                 instant |-> t]
    /\ nowDay = 0
    /\ \E target \in TargetTimes :
         timing = [pos |-> "entry", immediateMode |-> FALSE, targetTime |-> target,
                   maxWaitMinutes |-> DefaultMaxWait, start |-> 0, now |-> 0,
                   i |-> 0, sleeps |-> 0, late |-> 0]
    /\ delay = 0
    /\ pc = "now"
    /\ bookingSuccess = FALSE
    /\ isWaitingReservation = FALSE
    /\ hasConflictError = FALSE
    /\ hasTimeoutError = FALSE
    /\ dialogHandled = FALSE
    /\ handlerOn = FALSE
    /\ dlg = NoDialog
    /\ abandoned = FALSE
    /\ lateWrites = {}
    /\ dialogsSeen = 0
    /\ rows = << Row({"book_now"}, TRUE) >>
    /\ pageRows = << >>
    /\ request = "none"
    /\ accepted = 0
    /\ result = NotFoundResult
    /\ verified = FALSE
    /\ thrown = "none"
    /\ retryCount = 0
    /\ success = FALSE
    /\ record = NoRecord
    /\ writes = 0
    /\ exitCode = 0
    /\ rejected = FALSE
    /\ sessionOpen = FALSE
    /\ attempts = 0
    /\ clicks = 0
    /\ submits = 0
    /\ outcomes = << >>
    /\ waited = FALSE
    /\ driverUsed = FALSE

ClockNext ==
    \/ ReadKSTDate
    \/ InitGate
    \/ WaitStart

ClockSpec == ClockInit /\ [][ClockNext]_vars

\* the UTC+9 wall clock at the instant of the run, in seconds
TrueKST == host.instant + KSTOffsetHours * 3600

\* C27: host-timezone independence. Whatever the time zone of the host, the
\* weekday the day gate reads and the hour, minute and second the wait reads
\* from getKSTDate() are those of the UTC+9 wall clock, so the skip/proceed
\* decision and the remaining wait are those of a run on any other host at the
\* same instant.
C27_HostTimezoneIndependence ==
    pc # "now"
    => /\ getDay(nowDay) = getDay(TrueKST \div SecondsPerDay)
       /\ getHours(timing.now) = getHours(TrueKST * TicksPerSecond)
       /\ getMinutes(timing.now) = getMinutes(TrueKST * TicksPerSecond)
       /\ getSeconds(timing.now) = getSeconds(TrueKST * TicksPerSecond)
       /\ DayGateSkips(variant, nowDay, testMode, executionMode)
            = DayGateSkips(variant, TrueKST \div SecondsPerDay, testMode, executionMode)
       /\ calculateWaitTime(timing.now, timing.targetTime)
            = calculateWaitTime(TrueKST * TicksPerSecond, timing.targetTime)

----------------------------------------------------------------------------
(* Claims about the fine loop and calculateWaitTime, checked under WaitSpec *)

\* the target instant: the first second at or after the start of the wait
\* whose time of day is the target time
TargetInstant ==
    LET startSecond == timing.start \div TicksPerSecond
        targetTotal == TotalSeconds(timing.targetTime[1], timing.targetTime[2],
                                    timing.targetTime[3])
    IN  startSecond + ((targetTotal - (startSecond % SecondsPerDay) + SecondsPerDay)
                          % SecondsPerDay)

\* whole seconds that truly remain from the clock to the target instant
TrueRemaining == TargetInstant - (timing.now \div TicksPerSecond)

\* C28: fine-phase sleep tiers. An iteration of the fine loop that does not
\* exit sleeps 2 s when more than 30 s truly remain until the target instant,
\* 1 s when 11..30 s remain and 200 ms when 1..10 s remain, also when the target
\* lies just after midnight and the clock is still in hour 23; no iteration
\* sleeps less than 100 ms.
C28_FinePhaseSleepTiers ==
    [][ (pc = "wait" /\ timing.pos = "seconds" /\ timing'.pos = "seconds")
        => LET slept == (timing'.now - timing.now) * (1000 \div TicksPerSecond)
           IN  /\ TrueRemaining > 30 => slept = 2000
               /\ TrueRemaining \in 11..30 => slept = 1000
               /\ TrueRemaining \in 1..10 => slept = 200
               /\ slept >= 100 ]_vars

\* C30: midnight wraparound of calculateWaitTime. It returns target + 24 h
\* - current when the current hour is 23 and the target hour is below 12,
\* target - current when that is positive and there is no wraparound, and 0 in
\* every other case (a target of 00:01:00 read at 22:59 gives 0); it is never
\* negative.
C30_MidnightWraparound ==
    LET target       == timing.targetTime
        currentTotal == TotalSeconds(getHours(timing.now), getMinutes(timing.now),
                                     getSeconds(timing.now))
        targetTotal  == TotalSeconds(target[1], target[2], target[3])
        wraps        == getHours(timing.now) = 23 /\ target[1] < 12
        waitSeconds  == calculateWaitTime(timing.now, target)
    IN  /\ wraps => waitSeconds = targetTotal + SecondsPerDay - currentTotal
        /\ (~wraps /\ targetTotal - currentTotal > 0) => waitSeconds = targetTotal - currentTotal
        /\ (~wraps /\ targetTotal - currentTotal <= 0) => waitSeconds = 0
        /\ (target = << 0, 1, 0 >> /\ getHours(timing.now) = 22 /\ getMinutes(timing.now) = 59)
             => waitSeconds = 0
        /\ waitSeconds >= 0

\* the wait began in hour 23 for a target after midnight and is in its minute
\* loop for the whole minutes calculateWaitTime returned
C30_Witness ==
    /\ pc = "wait"
    /\ timing.pos = "minutes"
    /\ timing.now = timing.start
    /\ getHours(timing.start) = 23
    /\ timing.targetTime[1] < 12
    /\ timing.i > 0
    /\ timing.i = calculateWaitTime(timing.start, timing.targetTime) \div 60

----------------------------------------------------------------------------
(* Specification of the wait with timers that fire late: setTimeout resolves
   no sooner than its delay, and the log writes between two sleeps take time *)

\* ticks by which the timers of one wait fire late in total
MaxTimerLate == 5
\* the wait starts up to MaxLateLead seconds before the target time
MaxLateLead == 3

\* a timer of the minute loop or of the fine loop fires a tick late
TimerFiresLate ==
    /\ pc = "wait"
    /\ timing.pos \in {"minutes", "seconds"}
    /\ timing.late < MaxTimerLate
    /\ timing' = [timing EXCEPT !.now = @ + 1, !.late = @ + 1]
    /\ UNCHANGED << variant, hasCredentials, testMode, executionMode, retryEnv, host, nowDay, delay, pc,
                    flagVars, dlgVars, siteVars, result, verified, thrown, runVars,
                    sessionOpen, cntVars >>

\* TARGET_TIME: the last second of the day, the last second of a minute of
\* hour 23 and of a minute at noon, and the default
LateTargets == { << 23, 59, 59 >>, << 23, 30, 59 >>, << 12, 30, 59 >>, << 0, 1, 0 >> }

\* seconds the run starts ahead of the target: a few, and a minute and a second
LateLeads == (1..MaxLateLead) \cup { 61 }

LateInit == WaitInitOver({FALSE}, { << >> }, LateTargets, LateLeads)

LateNext ==
    \/ WaitNext
    \/ TimerFiresLate

LateSpec == LateInit /\ [][LateNext]_vars

\* the clock is past the second of the target instant
Overshot == timing.now \div TicksPerSecond > TargetInstant

\* C29: overshoot exits at once. An iteration of the fine loop that observes a
\* time already later than the target instant exits in that iteration, whatever
\* the target hour: it sleeps no more, and so never waits for the target time
\* of day of the following day.
C29_OvershootExitsAtOnce ==
    [][ (pc = "wait" /\ timing.pos = "seconds" /\ Overshot)
        => timing'.sleeps = timing.sleeps ]_vars

----------------------------------------------------------------------------
(* Claims about the end of the wait, checked under WaitSpec *)

\* the wait took none of its three early returns
EnteredPhases ==
    ~ReturnsAtOnce(timing.immediateMode,
                   calculateWaitTime(timing.start, timing.targetTime),
                   timing.maxWaitMinutes)

\* C31: no early start after waiting. When waitUntilTargetTime took none of
\* its immediate returns, the instant at which it returns, and so the start of
\* the booking loop, is at or after the target instant, also for a target just
\* after midnight reached from hour 23.
C31_NoEarlyStartAfterWaiting ==
    (timing.pos = "done" /\ EnteredPhases)
    => timing.now >= TargetInstant * TicksPerSecond

\* the wait began in hour 23, slept through midnight and run() is at its loop
C31_Witness ==
    /\ pc = "loop"
    /\ timing.pos = "done"
    /\ EnteredPhases
    /\ getHours(timing.start) = 23
    /\ timing.targetTime[1] = 0
    /\ timing.sleeps > 0

----------------------------------------------------------------------------
(* Claims about the record, the dialogs and the exit, checked under Spec *)

\* C32: a success status implies a confirmed booking. Every record written
\* with status SUCCESS or WAITING has bookingSuccess = true: an attempt that
\* clicked a slot link but received no confirming dialog is never recorded as
\* SUCCESS.
C32_SuccessStatusImpliesConfirmedBooking ==
    record.status \in {"SUCCESS", "WAITING"} => record.bookingSuccess

\* C33: every dialog is answered. The handler of an attempt accepts every
\* dialog raised while it is registered, whichever rule the text matches and
\* whether or not an earlier dialog of the attempt was handled: no handler
\* invocation returns and leaves its dialog pending.
C33_EveryDialogIsAnswered == ~abandoned

\* find0930ClassAndBook of the current attempt has returned or thrown
AfterFind == pc \in {"returned", "process", "catch", "finally"}

\* C34: no late flag writes by the asynchronous handler. Once
\* find0930ClassAndBook has returned or thrown, nothing changes bookingSuccess,
\* isWaitingReservation, hasConflictError or hasTimeoutError any more in that
\* attempt: a handler invocation still awaiting its log write does not alter
\* the flags run() reads to compute the status.
C34_NoLateFlagWrites ==
    [][ (AfterFind /\ pc' # "loop") => UNCHANGED flagVars ]_vars

\* C35: a record for every ended run. A run that passed the credential check
\* and reached the process exit has written a result record before exiting,
\* on every path, a failed browser launch and a failed browser close included.
C35_RecordForEveryEndedRun ==
    (pc = "exited" /\ hasCredentials) => (writes > 0 /\ record # NoRecord)

\* C36: the exit code agrees with the record. When a run that has written a
\* result record exits, its exit code is 1 if and only if the status of the
\* record is FAILED: a run that wrote any other status never exits with 1.
C36_ExitCodeAgreesWithRecord ==
    (pc = "exited" /\ writes > 0) => (exitCode = 1 <=> record.status = "FAILED")

\* C37: test mode makes no reservation. When testMode is true no attempt
\* changes the user's reservations on the site: no book-now request is
\* submitted and no waitlist is joined, whatever the 09:30 row shows.
C37_TestModeMakesNoReservation ==
    testMode => (submits = 0 /\ accepted = 0 /\ request # "accepted")

\* C38: configured limits are honoured. For every non-negative integer value
\* of RETRY_COUNT the run makes at most RETRY_COUNT booking attempts; a value
\* of 0 yields no attempt at all.
C38_ConfiguredLimitsAreHonoured ==
    retryEnv # << >> => attempts <= retryEnv[1]

====
